---- MODULE Spec2Model ----
(***************************************************************************)
(* Model of the progress indicator engine of gentics-ui-core               *)
(* (src/components/progress-bar/progress-bar.component.ts).                *)
(*                                                                         *)
(* Numbers: progressPercentage is kept as a whole percentage 0..100 and    *)
(* the two growth laws are computed in integer fixed point (results are    *)
(* truncated to whole percents).  Time is not a variable: every frame      *)
(* draws the elapsed time since the previous frame from Deltas (ms).       *)
(* Progress fractions are given in hundredths (30 stands for 0.3).         *)
(*                                                                         *)
(* Promise callbacks that run as the microtask directly following a        *)
(* handler (the then() of transitionTo100Percent in complete()) are part   *)
(* of the step of that handler.                                            *)
(***************************************************************************)
EXTENDS Integers, Sequences, FiniteSets, TLC

\* ---------------------------------------------------------------- bounds
\* number of promises / streams whose callbacks may be outstanding at once
MaxBindings == 2
\* number of animation-frame requests that may be outstanding at once
MaxFrames == 2
\* number of toasts Notification.show() is called for
MaxToasts == 2
\* number of times one toast is dismissed (dismiss(), timer, destroyAllToasts)
MaxDismissals == 2

\* ------------------------------------------------------- input alphabets
Null == "null"
NoSource == "none"
\* elapsed milliseconds between two frames
Deltas == {500, 2000}
\* elapsed milliseconds between two frames of a loop that is not delayed
ShortDeltas == {100}
\* a JavaScript value: null, a number (a fraction in hundredths) or a string
NullValue == [type |-> "null", f |-> 0]
Number(f) == [type |-> "number", f |-> f]
Text == [type |-> "string", f |-> 0]
\* values assigned to `progress`
ProgressInputs == {NullValue} \cup {Number(f) : f \in {-50, 0, 30, 100, 150}}
\* values a bound stream emits
EmitInputs == {Number(30), Number(100), Text}
\* values of a stream that reports progress below 1 only
FractionsBelowOne == {Number(30), Number(60)}
\* values assigned to `speed`
SpeedInputs ==
    { [type |-> "string", num |-> 1,    unit |-> "s"],
      [type |-> "string", num |-> 500,  unit |-> "ms"],
      [type |-> "string", num |-> 500,  unit |-> ""],
      [type |-> "string", num |-> 700,  unit |-> "px"],
      [type |-> "number", num |-> 1000, unit |-> ""] }
\* values assigned to `speed`, among them the accepted speeds "0ms" and 0
ZeroSpeedInputs ==
    { [type |-> "string", num |-> 0,   unit |-> "ms"],
      [type |-> "number", num |-> 0,   unit |-> ""],
      [type |-> "number", num |-> 500, unit |-> ""] }
\* values assigned to `progress`: null and the fraction 0.99
NearFullInputs == {NullValue, Number(99)}
\* sources passed to start() and assigned to `for`
Sources == {NoSource, "promise", "stream"}
Elements == {"wrapper", "indicator"}

\* defaultOptions.delay
DefaultDelay == 3000
VerticalMargin == 10
\* the `delay` of the options passed to show(): absent, 0 or 1000
DelayInputs ==
    { [given |-> FALSE, ms |-> 0], [given |-> TRUE, ms |-> 0],
      [given |-> TRUE, ms |-> 1000] }

\* ------------------------------------------------------------------ state
VARIABLES
    isActive,             \* private isActive
    determinate,          \* private determinate
    progressPercentage,   \* private progressPercentage
    progressBarVisible,   \* private progressBarVisible
    indeterminateSpeed,   \* private indeterminateSpeed
    animationRequest,     \* TRUE when the field holds the id of a frame request
    lastAnimationFrame,   \* "undefined" or "stamp"
    removePendingHandler, \* which closure the field holds
    cleanupSubscription,  \* the binding whose cleanup closure the field holds;
                          \* 0 for noop and for a closure whose promise has
                          \* settled or whose stream has terminated
    frames,               \* outstanding requestAnimationFrame(animateIndeterminate)
    listeners,            \* registered transitionend listeners per element
    bindings,             \* promises / streams whose callbacks are outstanding,
                          \* in the order they were bound
    destroyed,            \* ngOnDestroy has run
    finalCall,            \* NoCall while the embedding code may still call the
                          \* component; else the last call it has made
    hostViewContainer,    \* Notification: TRUE once getHostView() has resolved
    openToasts,           \* Notification.openToasts: toast ids, newest first
    toasts,               \* per toast id: the toast show() was called for
    thrown,               \* a call into Notification has raised a TypeError
    repositions           \* pending setTimeout callbacks of positionOpenToasts

toastVars == << hostViewContainer, openToasts, toasts, thrown, repositions >>

vars == << isActive, determinate, progressPercentage, progressBarVisible,
           indeterminateSpeed, animationRequest, lastAnimationFrame,
           removePendingHandler, cleanupSubscription, frames, listeners,
           bindings, destroyed, finalCall,
           hostViewContainer, openToasts, toasts, thrown, repositions >>

NoCall == [op |-> "none", arg |-> "", active |-> FALSE, determinate |-> FALSE]

\* the call op(arg), made in the current state
Call(op, arg) ==
    [op |-> op, arg |-> arg, active |-> isActive, determinate |-> determinate]

\* s without its i-th element
Without(s, i) == SubSeq(s, 1, i - 1) \o SubSeq(s, i + 1, Len(s))

\* the component and its environment as one record
This ==
    [ isActive |-> isActive, determinate |-> determinate,
      progressPercentage |-> progressPercentage,
      progressBarVisible |-> progressBarVisible,
      indeterminateSpeed |-> indeterminateSpeed,
      animationRequest |-> animationRequest,
      lastAnimationFrame |-> lastAnimationFrame,
      removePendingHandler |-> removePendingHandler,
      cleanupSubscription |-> cleanupSubscription,
      frames |-> frames, listeners |-> listeners, bindings |-> bindings,
      destroyed |-> destroyed ]

Becomes(s) ==
    /\ isActive' = s.isActive
    /\ determinate' = s.determinate
    /\ progressPercentage' = s.progressPercentage
    /\ progressBarVisible' = s.progressBarVisible
    /\ indeterminateSpeed' = s.indeterminateSpeed
    /\ animationRequest' = s.animationRequest
    /\ lastAnimationFrame' = s.lastAnimationFrame
    /\ removePendingHandler' = s.removePendingHandler
    /\ cleanupSubscription' = s.cleanupSubscription
    /\ frames' = s.frames
    /\ listeners' = s.listeners
    /\ bindings' = s.bindings
    /\ destroyed' = s.destroyed
    /\ UNCHANGED toastVars

\* ---------------------------------------------------------------- numbers
Max(a, b) == IF a >= b THEN a ELSE b
Min(a, b) == IF a <= b THEN a ELSE b

\* Math.max(0, Math.min(100, x))
Clamp(x) == Max(0, Min(100, x))

RECURSIVE SqrtSearch(_, _, _)
SqrtSearch(n, lo, hi) ==
    IF lo >= hi THEN lo
    ELSE LET mid == (lo + hi + 1) \div 2
         IN IF mid * mid <= n THEN SqrtSearch(n, mid, hi)
            ELSE SqrtSearch(n, lo, mid - 1)

\* 10 * Math.sqrt(x), truncated, for 0 <= x <= 100
Sqrt10(x) == SqrtSearch(100 * x, 0, 100)

\* the percentage when it is the IEEE value NaN: Math.max(0, Math.min(100, NaN))
NaN == 0 - 1

\* the "active" growth law: percentage after a frame of delta ms (delta > 0).
\* With speed 0 the factor delta * (900 / 0) is Infinity, and Infinity * 0
\* is NaN.
ActivePercent(p, delta, speed) ==
    LET root == Sqrt10(100 - p)
        pow  == (10 - root) * (10 - root)
    IN  IF p = NaN THEN NaN
        ELSE IF speed = 0 THEN (IF pow = 0 THEN NaN ELSE 100)
        ELSE Clamp(p + (delta * 9 * pow) \div (1000 * speed))

\* a faulty FinishPercent: the factor is Math.max(0, 1 - speed) alone
FinishPercentSlowOnly(p, delta, speed) ==
    IF p = NaN THEN NaN
    ELSE IF speed = 0 THEN p
    ELSE Clamp(p + (delta * Max(0, speed - 900)) \div (4 * speed))

\* the finishing law: percentage after a frame of delta ms (delta > 0)
FinishPercent(p, delta, speed) ==
    IF p = NaN THEN NaN
    ELSE IF speed = 0 THEN 100
    ELSE Clamp(p + (delta * Max(900, speed)) \div (4 * speed))

\* ------------------------------------------------------------ the handlers
\* the closure held in removePendingHandler, called
RemovePendingHandler(s) ==
    CASE s.removePendingHandler = "noop" -> s
      [] s.removePendingHandler \in Elements ->
            [s EXCEPT !.listeners[s.removePendingHandler] = Max(0, @ - 1),
                      !.removePendingHandler = "noop"]
      [] OTHER -> [s EXCEPT !.removePendingHandler = "noop"]

\* a faulty CleanupSubscription: the closure forgets itself but neither
\* clears the observing flag nor unsubscribes
CleanupSubscriptionKeepsObserving(s) == [s EXCEPT !.cleanupSubscription = 0]

\* the closure held in cleanupSubscription, called
CleanupSubscription(s) ==
    IF s.cleanupSubscription = 0 THEN s
    ELSE LET i == s.cleanupSubscription
             b == s.bindings[i]
         IN  IF b.kind = "stream"
             THEN [s EXCEPT !.bindings = Without(@, i),
                            !.cleanupSubscription = 0]
             ELSE [s EXCEPT !.bindings[i].live = FALSE,
                            !.cleanupSubscription = 0]

\* a faulty Cleanup: a frame request is cancelled whether or not
\* animationRequest holds one
CleanupCancelsAnyFrame(s) ==
    LET s1 == [s EXCEPT !.frames = Max(0, @ - 1), !.animationRequest = FALSE]
    IN  CleanupSubscription(RemovePendingHandler(s1))

\* cleanup()
Cleanup(s) ==
    LET s1 == IF s.animationRequest
              THEN [s EXCEPT !.frames = Max(0, @ - 1), !.animationRequest = FALSE]
              ELSE s
    IN  CleanupSubscription(RemovePendingHandler(s1))

\* a faulty FadeOutProgressBar: the pending handler is not removed first
FadeOutProgressBarKeepsHandler(s) ==
    [s EXCEPT !.listeners["wrapper"] = @ + 1,
              !.removePendingHandler = "wrapper",
              !.progressBarVisible = FALSE]

\* fadeOutProgressBar()
FadeOutProgressBar(s) ==
    LET s1 == RemovePendingHandler(s)
    IN  [s1 EXCEPT !.listeners["wrapper"] = @ + 1,
                   !.removePendingHandler = "wrapper",
                   !.progressBarVisible = FALSE]

TransitionTo100Percent(s) ==
    LET s1 == RemovePendingHandler(s)
    IN  IF s1.determinate
        THEN [s1 EXCEPT !.listeners["indicator"] = @ + 1,
                        !.removePendingHandler = "indicator",
                        !.progressPercentage = 100]
        ELSE [s1 EXCEPT !.removePendingHandler = "waitUntilDone"]

\* a faulty AnimateIndeterminate: the loop does not stop in Determinate mode
AnimateIndeterminateIgnoresMode(s, delta) ==
    LET s1 == [s EXCEPT !.animationRequest = FALSE]
        again(s2) == [s2 EXCEPT !.lastAnimationFrame = "stamp",
                                !.frames = @ + 1,
                                !.animationRequest = TRUE]
    IN  IF s1.lastAnimationFrame = "undefined"
        THEN again([s1 EXCEPT !.progressPercentage = 0])
        ELSE IF s1.isActive
             THEN again([s1 EXCEPT !.progressPercentage =
                    ActivePercent(@, delta, s1.indeterminateSpeed)])
        ELSE IF s1.progressPercentage # NaN /\ s1.progressPercentage < 100
             THEN again([s1 EXCEPT !.progressPercentage =
                    FinishPercent(@, delta, s1.indeterminateSpeed)])
        ELSE FadeOutProgressBar(s1)

\* one run of animateIndeterminate(), delta ms after the previous one
AnimateIndeterminate(s, delta) ==
    LET s1 == [s EXCEPT !.animationRequest = FALSE]
        again(s2) == [s2 EXCEPT !.lastAnimationFrame = "stamp",
                                !.frames = @ + 1,
                                !.animationRequest = TRUE]
    IN  IF s1.determinate THEN s1
        ELSE IF s1.lastAnimationFrame = "undefined"
             THEN again([s1 EXCEPT !.progressPercentage = 0])
        ELSE IF s1.isActive
             THEN again([s1 EXCEPT !.progressPercentage =
                    ActivePercent(@, delta, s1.indeterminateSpeed)])
        ELSE IF s1.progressPercentage # NaN /\ s1.progressPercentage < 100
             THEN again([s1 EXCEPT !.progressPercentage =
                    FinishPercent(@, delta, s1.indeterminateSpeed)])
        ELSE FadeOutProgressBar(s1)

\* a faulty CompleteFn: isActive is not tested
CompleteFnUnguarded(s) ==
    LET s1 == [s EXCEPT !.isActive = FALSE]
    IN  IF ~s1.determinate THEN s1
        ELSE IF s1.progressPercentage = 100 THEN FadeOutProgressBar(s1)
        ELSE TransitionTo100Percent(s1)

\* a faulty CompleteFn: the fade-out starts without the wait for the
\* indicator's transition to 100%
CompleteFnFadesAtOnce(s) ==
    IF ~s.isActive THEN s
    ELSE LET s1 == [s EXCEPT !.isActive = FALSE]
         IN  IF ~s1.determinate THEN s1
             ELSE FadeOutProgressBar([s1 EXCEPT !.progressPercentage = 100])

\* complete()
CompleteFn(s) ==
    IF ~s.isActive THEN s
    ELSE LET s1 == [s EXCEPT !.isActive = FALSE]
         IN  IF ~s1.determinate THEN s1
             ELSE IF s1.progressPercentage = 100 THEN FadeOutProgressBar(s1)
             ELSE TransitionTo100Percent(s1)

\* a callback of binding i has run for the last time
Forget(s, i) ==
    [s EXCEPT !.bindings = Without(@, i),
              !.cleanupSubscription =
                  IF @ = i THEN 0 ELSE IF @ > i THEN @ - 1 ELSE @]

\* then(): the callback for a resolved promise
OnFulfilled(s, i) ==
    IF s.bindings[i].live THEN CompleteFn(Forget(s, i)) ELSE Forget(s, i)

\* a faulty OnRejected: a rejection is swallowed without complete()
OnRejectedSwallowed(s, i) == Forget(s, i)

\* then(): the callback for a rejected promise
OnRejected(s, i) ==
    IF s.bindings[i].live THEN CompleteFn(Forget(s, i)) ELSE Forget(s, i)

\* subscribe(): the error callback
OnError(s, i) == CompleteFn(Forget(s, i))

\* subscribe(): the complete callback
OnComplete(s, i) == CompleteFn(Forget(s, i))

\* the tail of start(): then() / subscribe() and the new cleanup closure
Bind(s, source) ==
    IF source = NoSource THEN s
    ELSE [s EXCEPT !.bindings = Append(@, [kind |-> source, live |-> TRUE]),
                   !.cleanupSubscription = Len(s.bindings) + 1]

\* a faulty StartFn: start() without the leading cleanupSubscription()
StartFnWithoutCleanup(s, source) ==
    LET s2 == IF s.isActive THEN s
              ELSE LET s3 == [s EXCEPT !.isActive = TRUE,
                                       !.lastAnimationFrame = "undefined",
                                       !.progressBarVisible = TRUE]
                   IN  IF s3.determinate THEN s3
                       ELSE AnimateIndeterminate(
                                [s3 EXCEPT !.progressPercentage = 0], 0)
    IN  Bind(s2, source)

\* a faulty StartFn: start() begins a new cycle also on an active bar
StartFnRestarts(s, source) ==
    LET s1 == CleanupSubscription(s)
        s3 == [s1 EXCEPT !.isActive = TRUE,
                         !.lastAnimationFrame = "undefined",
                         !.progressBarVisible = TRUE]
        s2 == IF s3.determinate THEN s3
              ELSE AnimateIndeterminate([s3 EXCEPT !.progressPercentage = 0], 0)
    IN  Bind(s2, source)

\* start(promiseOrObservable)
StartFn(s, source) ==
    LET s1 == CleanupSubscription(s)
        s2 == IF s1.isActive THEN s1
              ELSE LET s3 == [s1 EXCEPT !.isActive = TRUE,
                                        !.lastAnimationFrame = "undefined",
                                        !.progressBarVisible = TRUE]
                   IN  IF s3.determinate THEN s3
                       ELSE AnimateIndeterminate(
                                [s3 EXCEPT !.progressPercentage = 0], 0)
    IN  Bind(s2, source)

\* a faulty SetActiveFn: the current value of isActive is not compared
SetActiveFnUnguarded(s, active) ==
    IF active THEN StartFn(s, NoSource) ELSE CompleteFn(s)

\* set active
SetActiveFn(s, active) ==
    IF active /\ ~s.isActive THEN StartFn(s, NoSource)
    ELSE IF ~active /\ s.isActive THEN CompleteFn(s)
    ELSE s

\* 100 * progress for a fraction given in hundredths
ToPercent(f) == (100 * f) \div 100

\* a faulty SetProgressFn: 100 * progress is not clamped to [0, 100]
SetProgressFnUnclamped(s, progress) ==
    IF progress.type = "null" THEN [s EXCEPT !.determinate = FALSE]
    ELSE LET s1 == [s EXCEPT !.determinate = TRUE]
             p  == ToPercent(progress.f)
         IN  IF p = s1.progressPercentage THEN s1
             ELSE IF p = 100 THEN CompleteFn(s1)
             ELSE [s1 EXCEPT !.progressPercentage = p]

\* set progress
SetProgressFn(s, progress) ==
    IF progress.type = "null" THEN [s EXCEPT !.determinate = FALSE]
    ELSE LET s1 == [s EXCEPT !.determinate = TRUE]
             p  == Clamp(ToPercent(progress.f))
         IN  IF p = s1.progressPercentage THEN s1
             ELSE IF p = 100 THEN CompleteFn(s1)
             ELSE [s1 EXCEPT !.progressPercentage = p]

\* a faulty SetSpeedFn: the unit "s" is matched but not converted
SetSpeedFnIgnoresUnit(s, speed) ==
    IF speed.type = "string"
    THEN IF speed.unit \in {"", "ms", "s"}
         THEN [s EXCEPT !.indeterminateSpeed = speed.num]
         ELSE s
    ELSE [s EXCEPT !.indeterminateSpeed = speed.num]

\* set speed
SetSpeedFn(s, speed) ==
    IF speed.type = "string"
    THEN IF speed.unit \in {"", "ms", "s"}
         THEN [s EXCEPT !.indeterminateSpeed =
                   speed.num * (IF speed.unit = "s" THEN 1000 ELSE 1)]
         ELSE s
    ELSE [s EXCEPT !.indeterminateSpeed = speed.num]

\* set for
SetForFn(s, source) ==
    LET s1 == Cleanup(s)
    IN  IF source # Null
        THEN StartFn([s1 EXCEPT !.progressPercentage = 0], source)
        ELSE IF s1.isActive THEN CompleteFn(s1)
        ELSE s1

\* ----------------------------------------------------------- Notification
\* a toast id show() has not been called for
NoToast ==
    [ phase    |-> "none",   \* "creating": createToast() pending; "created":
                             \* `toast` of show() is set; "failed": it rejected
      delay    |-> 0,        \* mergedOptions.delay
      timer    |-> "none",   \* dismissTimer: "armed", "fired" or "cleared"
      timeouts |-> 0,        \* pending setTimeout(..., 200) of destroyToast
      destroys |-> 0,        \* componentRef.destroy() calls
      top      |-> 0 ]       \* toast.position.top

\* the service as one record
Service == [openToasts |-> openToasts, toasts |-> toasts]

\* Object.assign({}, defaultOptions, options).delay
MergedDelay(option) == IF option.given THEN option.ms ELSE DefaultDelay

\* getToastIndex(toast): 0 when the toast is not open
GetToastIndex(n, t) ==
    IF \E i \in DOMAIN n.openToasts : n.openToasts[i] = t
    THEN CHOOSE i \in DOMAIN n.openToasts : n.openToasts[i] = t
    ELSE 0

\* destroyToast(componentRef) up to its setTimeout
DestroyToast(n, t) ==
    LET index == GetToastIndex(n, t)
        n1 == IF index > 0
              THEN [n EXCEPT !.toasts[t].timer =
                                 IF @ = "armed" THEN "cleared" ELSE @,
                             !.openToasts = Without(@, index)]
              ELSE n
    IN  [n1 EXCEPT !.toasts[t].timeouts = @ + 1]

\* openToasts.forEach(o => o.toast.dismissFn()) from index k on: forEach
\* visits the indices that still exist when it reaches them
RECURSIVE DismissEach(_, _)
DismissEach(n, k) ==
    IF k > Len(n.openToasts) THEN n
    ELSE DismissEach(DestroyToast(n, n.openToasts[k]), k + 1)

\* destroyAllToasts()
DestroyAllToastsFn(n) == [DismissEach(n, 1) EXCEPT !.openToasts = << >>]

\* the then() callback of createToast(), with the host view available
CreateToastFn(n, t) ==
    [n EXCEPT !.toasts[t].phase = "created",
              !.toasts[t].timer = IF 0 < n.toasts[t].delay THEN "armed" ELSE "none",
              !.openToasts = << t >> \o @]

\* toast.getHeight(): the rendered height of toast t
GetHeight(t) == 20 + 20 * t

\* the reduce of getToastTop over the first k open toasts
RECURSIVE ReduceTop(_, _)
ReduceTop(n, k) ==
    IF k = 0 THEN 0
    ELSE ReduceTop(n, k - 1) + GetHeight(n.openToasts[k]) + VerticalMargin

\* a faulty GetToastTop: the toast's own height and margin are counted too
GetToastTopInclusive(n, t) == ReduceTop(n, GetToastIndex(n, t))

\* getToastTop(toast): the open toasts before it, filter((o, i) => i < index)
GetToastTop(n, t) == ReduceTop(n, Max(0, GetToastIndex(n, t) - 1))

\* the forEach of positionOpenToasts()
PositionOpenToastsFn(n) ==
    [n EXCEPT !.toasts =
        [t \in DOMAIN n.toasts |->
            IF GetToastIndex(n, t) > 0
            THEN [n.toasts[t] EXCEPT !.top = GetToastTop(n, t)]
            ELSE n.toasts[t]]]

ServiceBecomes(n) ==
    /\ openToasts' = n.openToasts
    /\ toasts' = n.toasts

barVars == << isActive, determinate, progressPercentage, progressBarVisible,
              indeterminateSpeed, animationRequest, lastAnimationFrame,
              removePendingHandler, cleanupSubscription, frames, listeners,
              bindings, destroyed, finalCall >>

\* the promise of overlayHostService.getHostView() resolves
HostViewResolved ==
    /\ ~hostViewContainer
    /\ hostViewContainer' = TRUE
    /\ UNCHANGED << openToasts, toasts, thrown, repositions, barVars >>

\* show(options)
Show(option) ==
    /\ \E t \in 1..MaxToasts :
          /\ toasts[t].phase = "none"
          /\ \A u \in 1..(t - 1) : toasts[u].phase # "none"
          /\ toasts' = [toasts EXCEPT ![t].phase = "creating",
                                      ![t].delay = MergedDelay(option)]
    /\ UNCHANGED << hostViewContainer, openToasts, thrown, repositions, barVars >>

\* resolveComponent(Toast) resolves and the then() callback of createToast()
\* runs; without a host view it throws and the promise is rejected
CreateToast(t) ==
    /\ toasts[t].phase = "creating"
    /\ IF hostViewContainer
       THEN /\ ServiceBecomes(CreateToastFn(Service, t))
            /\ repositions' = repositions + 1
       ELSE /\ toasts' = [toasts EXCEPT ![t].phase = "failed"]
            /\ UNCHANGED << openToasts, repositions >>
    /\ UNCHANGED << hostViewContainer, thrown, barVars >>

\* the dismiss() of the object show() returned for toast t
Dismiss(t) ==
    /\ toasts[t].phase # "none"
    /\ toasts[t].timeouts + toasts[t].destroys < MaxDismissals
    /\ IF toasts[t].phase = "created"
       THEN ServiceBecomes(DestroyToast(Service, t)) /\ UNCHANGED thrown
       ELSE thrown' = TRUE /\ UNCHANGED << openToasts, toasts >>
    /\ UNCHANGED << hostViewContainer, repositions, barVars >>

\* the auto-dismiss timer of toast t fires
DismissTimer(t) ==
    /\ toasts[t].timer = "armed"
    /\ toasts[t].timeouts + toasts[t].destroys < MaxDismissals
    /\ ServiceBecomes(DestroyToast(
           [Service EXCEPT !.toasts[t].timer = "fired"], t))
    /\ UNCHANGED << hostViewContainer, thrown, repositions, barVars >>

\* the 200 ms timeout of destroyToast fires: componentRef.destroy() and
\* positionOpenToasts()
DestroyTimeout(t) ==
    /\ toasts[t].timeouts > 0
    /\ toasts' = [toasts EXCEPT ![t].timeouts = @ - 1, ![t].destroys = @ + 1]
    /\ repositions' = repositions + 1
    /\ UNCHANGED << hostViewContainer, openToasts, thrown, barVars >>

\* the setTimeout callback of positionOpenToasts() runs
Reposition ==
    /\ repositions > 0
    /\ repositions' = repositions - 1
    /\ toasts' = PositionOpenToastsFn(Service).toasts
    /\ UNCHANGED << hostViewContainer, openToasts, thrown, barVars >>

\* destroyAllToasts()
DestroyAllToasts ==
    /\ \A i \in DOMAIN openToasts :
          toasts[openToasts[i]].timeouts + toasts[openToasts[i]].destroys
              < MaxDismissals
    /\ ServiceBecomes(DestroyAllToastsFn(Service))
    /\ UNCHANGED << hostViewContainer, thrown, repositions, barVars >>

\* a faulty OnNext: the emitted value is assigned whatever its type
OnNextAnyValue(s, value) == SetProgressFn(s, value)

\* subscribe(): the next callback
OnNext(s, value) ==
    IF value.type = "number" THEN SetProgressFn(s, value) ELSE s

\* ---------------------------------------------------------------- actions
Fits(s) == s.frames <= MaxFrames /\ Len(s.bindings) <= MaxBindings

Init ==
    /\ isActive = FALSE
    /\ determinate = FALSE
    /\ progressPercentage = 0
    /\ progressBarVisible = FALSE
    /\ indeterminateSpeed = 500
    /\ animationRequest = FALSE
    /\ lastAnimationFrame = "undefined"
    /\ removePendingHandler = "noop"
    /\ cleanupSubscription = 0
    /\ frames = 0
    /\ listeners = [e \in Elements |-> 0]
    /\ bindings = << >>
    /\ destroyed = FALSE
    /\ finalCall = NoCall
    /\ hostViewContainer = FALSE
    /\ openToasts = << >>
    /\ toasts = [t \in 1..MaxToasts |-> NoToast]
    /\ thrown = FALSE
    /\ repositions = 0

\* a call of the embedding code; `final` marks the last call it makes
Caller(final, call) ==
    /\ ~destroyed
    /\ finalCall = NoCall
    /\ finalCall' = IF final THEN call ELSE NoCall

SetActive(active, final) ==
    /\ Caller(final, Call("active", ""))
    /\ Fits(SetActiveFn(This, active))
    /\ Becomes(SetActiveFn(This, active))

SetProgress(progress, final) ==
    /\ Caller(final, Call("progress", progress.type))
    /\ Becomes(SetProgressFn(This, progress))

SetSpeed(speed, final) ==
    /\ Caller(final, Call("speed", ""))
    /\ Becomes(SetSpeedFn(This, speed))

SetFor(source, final) ==
    /\ Caller(final, Call("for", source))
    /\ Fits(SetForFn(This, source))
    /\ Becomes(SetForFn(This, source))

Start(source, final) ==
    /\ Caller(final, Call("start", source))
    /\ Fits(StartFn(This, source))
    /\ Becomes(StartFn(This, source))

Complete(final) ==
    /\ Caller(final, Call("complete", ""))
    /\ Becomes(CompleteFn(This))

NgOnDestroy ==
    /\ ~destroyed
    /\ Becomes([Cleanup(This) EXCEPT !.destroyed = TRUE])
    /\ UNCHANGED finalCall

\* the browser runs one requested animation frame callback
AnimationFrame(delta) ==
    /\ frames > 0
    /\ Becomes(AnimateIndeterminate([This EXCEPT !.frames = @ - 1], delta))
    /\ UNCHANGED finalCall

\* the listener that fadeOutProgressBar registered on the wrapper fires
WrapperTransitionEnd ==
    /\ listeners["wrapper"] > 0
    /\ Becomes([RemovePendingHandler(This) EXCEPT !.progressPercentage = 0])
    /\ UNCHANGED finalCall

\* the listener that transitionTo100Percent registered on the indicator fires
IndicatorTransitionEnd ==
    /\ listeners["indicator"] > 0
    /\ Becomes(FadeOutProgressBar(RemovePendingHandler(This)))
    /\ UNCHANGED finalCall

\* a bound promise resolves or rejects
Settle(i, outcome) ==
    /\ i \in DOMAIN bindings
    /\ bindings[i].kind = "promise"
    /\ Becomes(IF outcome = "resolve" THEN OnFulfilled(This, i)
               ELSE OnRejected(This, i))
    /\ UNCHANGED finalCall

\* a subscribed stream emits a value
Emit(i, value) ==
    /\ i \in DOMAIN bindings
    /\ bindings[i].kind = "stream"
    /\ bindings[i].live
    /\ Becomes(OnNext(This, value))
    /\ UNCHANGED finalCall

\* a subscribed stream completes or errors
Terminate(i, how) ==
    /\ i \in DOMAIN bindings
    /\ bindings[i].kind = "stream"
    /\ bindings[i].live
    /\ Becomes(IF how = "complete" THEN OnComplete(This, i)
               ELSE OnError(This, i))
    /\ UNCHANGED finalCall

\* the calls of the embedding code, assigning the given progress and speed
\* values
CallsOf(finals, progresses, speeds) ==
    \E final \in finals :
        \/ \E a \in BOOLEAN : SetActive(a, final)
        \/ \E p \in progresses : SetProgress(p, final)
        \/ \E sp \in speeds : SetSpeed(sp, final)
        \/ \E src \in (Sources \ {NoSource}) \cup {Null} : SetFor(src, final)
        \/ \E src \in Sources : Start(src, final)
        \/ Complete(final)

Calls(finals) == CallsOf(finals, ProgressInputs, SpeedInputs)

\* the callbacks the browser, the promises and the streams run, the streams
\* emitting values of `emits`
CallbacksOf(emits) ==
    \/ \E d \in Deltas : AnimationFrame(d)
    \/ WrapperTransitionEnd
    \/ IndicatorTransitionEnd
    \/ \E i \in 1..MaxBindings, o \in {"resolve", "reject"} : Settle(i, o)
    \/ \E i \in 1..MaxBindings, v \in emits : Emit(i, v)
    \/ \E i \in 1..MaxBindings, h \in {"complete", "error"} : Terminate(i, h)

Callbacks == CallbacksOf(EmitInputs)

Next == Calls({FALSE}) \/ NgOnDestroy \/ Callbacks

Spec == Init /\ [][Next]_vars

\* the embedding code may stop calling after any call
QuietNext == Calls(BOOLEAN) \/ NgOnDestroy \/ Callbacks

QuietSpec == Init /\ [][QuietNext]_vars

\* as QuietSpec, with streams that emit only numeric fractions below 1
StreamNext == Calls(BOOLEAN) \/ NgOnDestroy \/ CallbacksOf(FractionsBelowOne)

StreamSpec == Init /\ [][StreamNext]_vars

\* as Spec, with the speeds "0ms" and 0 and progress values null and 0.99
ZeroSpeedNext ==
    CallsOf({FALSE}, NearFullInputs, ZeroSpeedInputs) \/ NgOnDestroy \/ Callbacks

ZeroSpeedSpec == Init /\ [][ZeroSpeedNext]_vars

\* the Notification service and its toasts
ToastNext ==
    \/ HostViewResolved
    \/ \E o \in DelayInputs : Show(o)
    \/ \E t \in 1..MaxToasts : CreateToast(t)
    \/ \E t \in 1..MaxToasts : Dismiss(t)
    \/ \E t \in 1..MaxToasts : DismissTimer(t)
    \/ \E t \in 1..MaxToasts : DestroyTimeout(t)
    \/ DestroyAllToasts
    \/ Reposition

ToastSpec == Init /\ [][ToastNext]_vars

\* as Spec, with frames that also follow each other after 100 ms
ShortFrameNext == Next \/ \E d \in ShortDeltas : AnimationFrame(d)

ShortFrameSpec == Init /\ [][ShortFrameNext]_vars

\* ------------------------------------------------------------ properties
\* Idle: inactive, invisible, 0%
Idle == ~isActive /\ ~progressBarVisible /\ progressPercentage = 0

\* no frame request, transitionend listener or bound source is outstanding
AtRest ==
    /\ frames = 0
    /\ \A e \in Elements : listeners[e] = 0
    /\ \A i \in DOMAIN bindings : ~bindings[i].live

\* the bindings whose callbacks still act on the component
LiveBindings == {i \in DOMAIN bindings : bindings[i].live}

\* what the render layer and the schedulers see of a component
Observable(s) ==
    << s.isActive, s.progressBarVisible, s.progressPercentage, s.determinate,
       s.frames, s.animationRequest, s.listeners, s.removePendingHandler >>

\* C1: when complete() was called on an active bar in Indeterminate mode and
\* was the last call, the engine comes to rest only in Idle (active=false,
\* visible=false, percentage=0).
C1_CompleteIndeterminateEndsIdle ==
    ( /\ finalCall.op = "complete"
      /\ finalCall.active
      /\ ~finalCall.determinate
      /\ ~destroyed
      /\ AtRest ) => Idle

\* C2: at most one animation-frame request of the indeterminate loop is
\* outstanding.
C2_AtMostOneLoop == frames <= 1

\* C3: after ngOnDestroy() no callback that is still outstanding changes
\* percentage, visible, active or mode.
C3_NoMutationAfterDestroy ==
    [][destroyed =>
          UNCHANGED << isActive, determinate, progressPercentage,
                       progressBarVisible >>]_vars

\* C4: the resolution or rejection of a future that is no longer the current
\* binding (it was replaced, or the engine was torn down) changes no state of
\* the component: it does not complete the indicator.
C4_StaleSettlementIgnored ==
    [][\A i \in 1..MaxBindings, o \in {"resolve", "reject"} :
          (Settle(i, o) /\ i # cleanupSubscription) =>
              UNCHANGED << isActive, determinate, progressPercentage,
                           progressBarVisible, indeterminateSpeed,
                           animationRequest, lastAnimationFrame,
                           removePendingHandler, frames, listeners >>]_vars

\* C4 witness: the bar is active for a bound future while an earlier, replaced
\* future has not settled yet.
C4_Witness ==
    /\ isActive
    /\ \E i, j \in DOMAIN bindings :
          /\ i < j
          /\ bindings[i].kind = "promise" /\ ~bindings[i].live
          /\ bindings[j].kind = "promise" /\ bindings[j].live
          /\ cleanupSubscription = j

\* C5: when binding a future (through `for` or start(source)) was the last
\* call, the bar is active and visible while that future is pending, and after
\* it has settled the engine comes to rest only in Idle.
C5_BoundFutureCompletes ==
    ( /\ finalCall.op \in {"for", "start"}
      /\ finalCall.arg = "promise"
      /\ ~destroyed ) =>
        IF cleanupSubscription # 0
        THEN isActive /\ progressBarVisible
        ELSE AtRest => Idle

\* C6: at most one binding is live at any time, and none after ngOnDestroy.
C6_AtMostOneLiveBinding ==
    /\ Cardinality(LiveBindings) <= 1
    /\ destroyed => LiveBindings = {}

\* C6 witness: a stream is subscribed after a future that was bound before it
\* has been invalidated and has not settled yet.
C6_Witness ==
    /\ Len(bindings) = 2
    /\ bindings[1].kind = "promise" /\ ~bindings[1].live
    /\ bindings[2].kind = "stream" /\ bindings[2].live

\* C7: a transitionend notification that arrives while a cycle is active (the
\* wait was registered by the previous cycle) changes neither visible nor
\* percentage.
C7_RestartCancelsTransitionWait ==
    [][((WrapperTransitionEnd \/ IndicatorTransitionEnd) /\ isActive) =>
          UNCHANGED << progressBarVisible, progressPercentage >>]_vars

\* C8: on an active bar, assigning null to `for` leaves the same active,
\* visible, percentage, mode, pending frame request and pending listeners as
\* complete().
C8_ForNullIsComplete ==
    isActive => Observable(SetForFn(This, Null)) = Observable(CompleteFn(This))

\* C9: assigning progress=null on an active Determinate bar switches the mode
\* to Indeterminate and leaves an animation-frame request of the simulation
\* loop pending.
C9_NullProgressResumesLoop ==
    [][((\E final \in BOOLEAN : SetProgress(NullValue, final))
            /\ isActive /\ determinate) =>
          (~determinate' /\ frames' > 0)]_vars

\* C10: on an active bar, assigning progress=f with f >= 1 runs the completion
\* sequence: active is false afterwards, the bar is not parked active at 100%.
C10_FullProgressCompletes ==
    [][\A p \in ProgressInputs :
          ((\E final \in BOOLEAN : SetProgress(p, final))
              /\ p.type = "number" /\ p.f >= 100 /\ isActive) =>
            ~isActive']_vars

\* C11: assigning progress=f with f < 1 leaves the mode Determinate and the
\* percentage at 100*f, and at 0 for a fraction below 0.
C11_ProgressSetsPercentage ==
    [][\A p \in ProgressInputs :
          ((\E final \in BOOLEAN : SetProgress(p, final))
              /\ p.type = "number" /\ p.f < 100) =>
            /\ determinate'
            /\ progressPercentage' = IF p.f < 0 THEN 0 ELSE p.f]_vars

\* C11 witness: an active bar in Determinate mode shows the assigned 30%.
C11_Witness == isActive /\ determinate /\ progressPercentage = 30

\* binding a stream was the last call of the embedding code
BoundStreamLast ==
    /\ finalCall.op \in {"for", "start"}
    /\ finalCall.arg = "stream"
    /\ ~destroyed

AnyEmit ==
    \E i \in 1..MaxBindings, v \in EmitInputs \cup FractionsBelowOne : Emit(i, v)

AnyTerminate ==
    \E i \in 1..MaxBindings, h \in {"complete", "error"} : Terminate(i, h)

\* C12: after a stream was bound, each fraction below 1 it emits makes the bar
\* Determinate at 100 * that fraction; the percentage then stays the last
\* emitted one until the stream terminates; the termination starts the one
\* transition to 100% from it; and the engine comes to rest only in Idle.
C12_StreamDrivesCycle ==
    [][BoundStreamLast =>
          /\ \A v \in FractionsBelowOne :
                (\E i \in 1..MaxBindings : Emit(i, v)) =>
                    (determinate' /\ progressPercentage' = v.f)
          /\ ( /\ isActive /\ determinate /\ cleanupSubscription # 0
               /\ ~AnyEmit /\ ~AnyTerminate ) =>
                    progressPercentage' = progressPercentage
          /\ (AnyTerminate /\ isActive /\ determinate
                           /\ progressPercentage < 100) =>
                    /\ ~isActive'
                    /\ progressPercentage' = 100
                    /\ progressBarVisible' = progressBarVisible
                    /\ listeners'["indicator"] = 1
          /\ (~destroyed' /\ determinate' /\ AtRest') => Idle']_vars

\* C13: a rejection of the bound future changes the state exactly as its
\* resolution does, an error of the bound stream exactly as its completion,
\* and either is the state change of one complete() call.
C13_FailureCompletesLikeSuccess ==
    [][\A i \in 1..MaxBindings :
          /\ Settle(i, "reject") =>
                /\ Settle(i, "resolve")
                /\ bindings[i].live =>
                      Observable(This)' = Observable(CompleteFn(This))
          /\ Terminate(i, "error") =>
                /\ Terminate(i, "complete")
                /\ Observable(This)' = Observable(CompleteFn(This))]_vars

\* C13 witness: the source bound by the last call has settled or terminated
\* on an active Determinate bar, and the transition to 100% was started.
C13_Witness ==
    /\ finalCall.op \in {"for", "start"}
    /\ finalCall.arg \in {"promise", "stream"}
    /\ ~destroyed
    /\ bindings = << >>
    /\ ~isActive /\ determinate /\ progressPercentage = 100
    /\ listeners["indicator"] = 1

\* C14: start() on an active bar leaves active, visible and percentage as
\* they were, requests no further animation frame, and the source passed to
\* it is the bound one afterwards.
C14_StartWhileActive ==
    [][\A src \in Sources :
          ((\E final \in BOOLEAN : Start(src, final)) /\ isActive) =>
            /\ UNCHANGED << isActive, progressBarVisible, progressPercentage,
                            frames, animationRequest >>
            /\ src # NoSource =>
                  /\ cleanupSubscription' \in DOMAIN bindings'
                  /\ bindings'[cleanupSubscription'] =
                        [kind |-> src, live |-> TRUE]
                  /\ LiveBindings' = {cleanupSubscription'}]_vars

\* C14 witness: start(stream) was called on an active bar; the stream is
\* bound and the one loop of the cycle goes on from its percentage.
C14_Witness ==
    /\ finalCall.op = "start" /\ finalCall.arg = "stream" /\ finalCall.active
    /\ isActive /\ progressPercentage > 0
    /\ frames = 1
    /\ cleanupSubscription \in LiveBindings

\* C15: while a cycle runs (the bar is active or still visible), no step
\* lowers the percentage, except the start of a new cycle, a numeric progress
\* update (assigned or emitted by the bound stream) and the end of the
\* cycle's fade-out.
C15_PercentageNeverDecreases ==
    [][( /\ isActive \/ progressBarVisible
         /\ ~(~isActive /\ isActive')
         /\ ~(\E p \in ProgressInputs, final \in BOOLEAN : SetProgress(p, final))
         /\ ~AnyEmit
         /\ ~(WrapperTransitionEnd /\ ~isActive) ) =>
            progressPercentage' >= progressPercentage]_vars

\* C16: in every reachable state the percentage is a number in [0, 100].
C16_PercentageInRange == progressPercentage \in 0..100

\* C17: every step that changes visible from true to false is taken at 100%
\* and leaves the bar inactive.
C17_HiddenOnlyAfterExit ==
    [][(progressBarVisible /\ ~progressBarVisible') =>
          (~isActive' /\ progressPercentage = 100)]_vars

\* C18: the end of the wrapper's fade-out transition leaves the engine Idle
\* and in Indeterminate mode.
C18_FadeOutEndsIdleIndeterminate ==
    [][WrapperTransitionEnd => (Idle' /\ ~determinate')]_vars

\* C19: start() called in an Idle state yields an active, visible bar at 0% in
\* Indeterminate mode whose loop has exactly one frame request pending.
C19_StartFromIdle ==
    [][\A src \in Sources :
          ((\E final \in BOOLEAN : Start(src, final)) /\ Idle) =>
            /\ isActive' /\ progressBarVisible' /\ progressPercentage' = 0
            /\ ~determinate'
            /\ animationRequest' /\ frames' = 1]_vars

\* complete() on an active bar in Determinate mode was the last call
CompletedDeterminate ==
    /\ finalCall.op = "complete"
    /\ finalCall.active /\ finalCall.determinate
    /\ ~destroyed

\* C20: complete() on an active Determinate bar below 100% makes it inactive
\* at 100%, leaves visible as it is and waits for the indicator's transitionend;
\* at 100% already it starts the fade-out at once (visible=false, wait for the
\* wrapper's transitionend). After such a complete(), and apart from progress
\* values a bound stream emits, visible turns false only in the indicator's
\* transitionend callback and the percentage returns to 0 only in the
\* wrapper's.
C20_CompleteDeterminate ==
    [][/\ ( (\E final \in BOOLEAN : Complete(final))
            /\ isActive /\ determinate /\ progressPercentage < 100 ) =>
              /\ ~isActive' /\ progressPercentage' = 100
              /\ UNCHANGED progressBarVisible
              /\ listeners' = [wrapper |-> 0, indicator |-> 1]
       /\ ( (\E final \in BOOLEAN : Complete(final))
            /\ isActive /\ determinate /\ progressPercentage = 100 ) =>
              /\ ~isActive' /\ progressPercentage' = 100
              /\ ~progressBarVisible'
              /\ listeners' = [wrapper |-> 1, indicator |-> 0]
       /\ (CompletedDeterminate /\ ~AnyEmit) =>
              /\ (progressBarVisible /\ ~progressBarVisible') =>
                    IndicatorTransitionEnd
              /\ (progressPercentage # 0 /\ progressPercentage' = 0) =>
                    WrapperTransitionEnd]_vars

\* C20 witness: after the final complete() of a Determinate cycle the bar is
\* inactive at 100%, still visible, and waits for the indicator's transitionend.
C20_Witness ==
    /\ CompletedDeterminate
    /\ ~isActive /\ progressPercentage = 100 /\ progressBarVisible
    /\ listeners = [wrapper |-> 0, indicator |-> 1]

\* C21: in every reachable state, cleanup() called twice in a row leaves the
\* state of the first call, and so do removePendingHandler() and
\* cleanupSubscription().
C21_CancelIsIdempotent ==
    /\ Cleanup(Cleanup(This)) = Cleanup(This)
    /\ RemovePendingHandler(RemovePendingHandler(This)) =
          RemovePendingHandler(This)
    /\ CleanupSubscription(CleanupSubscription(This)) =
          CleanupSubscription(This)

\* C21 witness: ngOnDestroy() has cancelled the frame request and invalidated
\* the pending future of an active bar; nothing is left to cancel.
C21_Witness ==
    /\ destroyed /\ isActive
    /\ ~animationRequest /\ removePendingHandler = "noop"
    /\ cleanupSubscription = 0
    /\ \E i \in DOMAIN bindings : ~bindings[i].live

\* C22: assigning speed stores n * 1000 for "<n>s", n for "<n>ms" and "<n>",
\* the number itself for a number, keeps the previous speed for a string that
\* does not match, and changes nothing else.
C22_SpeedSetter ==
    [][\A sp \in SpeedInputs :
          (\E final \in BOOLEAN : SetSpeed(sp, final)) =>
            /\ indeterminateSpeed' =
                  IF sp.type = "number" THEN sp.num
                  ELSE IF sp.unit = "s" THEN 1000 * sp.num
                  ELSE IF sp.unit \in {"ms", ""} THEN sp.num
                  ELSE indeterminateSpeed
            /\ Observable(This)' = Observable(This)
            /\ UNCHANGED << bindings, cleanupSubscription, lastAnimationFrame >>]_vars

\* C22 witness: a speed of 1000 (from "1s" or 1000) is configured on an
\* active bar.
C22_Witness == indeterminateSpeed = 1000 /\ isActive /\ ~determinate

\* C23: assigning active=true to an inactive bar is start(), assigning
\* active=false to an active bar is complete(), and assigning active its
\* current value changes nothing.
C23_ActiveSetter ==
    [][\A a \in BOOLEAN :
          (\E final \in BOOLEAN : SetActive(a, final)) =>
            This' = IF a /\ ~isActive THEN StartFn(This, NoSource)
                    ELSE IF ~a /\ isActive THEN CompleteFn(This)
                    ELSE This]_vars

\* C23 witness: active=true was assigned last, to a bar that was active for a
\* bound source; the bar is still active and the source still bound.
C23_Witness ==
    /\ finalCall.op = "active" /\ finalCall.active
    /\ ~destroyed
    /\ isActive /\ cleanupSubscription \in LiveBindings

\* C24: an active bar in Indeterminate mode is below 100%.
C24_ActiveLoopBelowFull ==
    (isActive /\ ~determinate) => progressPercentage < 100

\* C25: every call of the dismiss() that show() returned for a toast raises no
\* error and dismisses the toast: it is not among the open toasts afterwards
\* and its dismissal has started.
C25_DismissAlwaysDismisses ==
    [][\A t \in 1..MaxToasts :
          Dismiss(t) =>
            /\ ~thrown'
            /\ \A i \in DOMAIN openToasts' : openToasts'[i] # t
            /\ toasts'[t].timeouts = toasts[t].timeouts + 1]_vars

\* the toast ids among the open toasts
OpenToastIds == {openToasts[i] : i \in DOMAIN openToasts}

\* C26: a toast is created with an auto-dismiss timer exactly when its delay
\* (3000 when the options give none) is above 0; the firing timer removes the
\* toast from the open toasts and starts its destruction; and dismiss() on a
\* created toast leaves no armed timer behind.
C26_AutoDismiss ==
    [][\A t \in 1..MaxToasts :
          /\ \A o \in DelayInputs :
                (Show(o) /\ toasts[t].phase = "none"
                         /\ toasts'[t].phase = "creating") =>
                    toasts'[t].delay = IF o.given THEN o.ms ELSE 3000
          /\ (CreateToast(t) /\ hostViewContainer) =>
                /\ t \in OpenToastIds'
                /\ toasts'[t].timer =
                      IF toasts[t].delay > 0 THEN "armed" ELSE "none"
          /\ DismissTimer(t) =>
                /\ toasts[t].delay > 0
                /\ t \notin OpenToastIds'
                /\ toasts'[t].timeouts = toasts[t].timeouts + 1
          /\ DestroyTimeout(t) => toasts'[t].destroys = toasts[t].destroys + 1
          /\ (Dismiss(t) /\ toasts[t].phase = "created") =>
                toasts'[t].timer # "armed"]_vars

\* C27: a frame of the indeterminate loop that fires in Determinate mode
\* changes neither the percentage nor anything else the render layer sees,
\* and requests no further frame.
C27_FrameYieldsToProgress ==
    [][((\E d \in Deltas : AnimationFrame(d)) /\ determinate) =>
          /\ UNCHANGED << progressPercentage, determinate, isActive,
                          progressBarVisible, listeners >>
          /\ frames' = frames - 1
          /\ ~animationRequest']_vars

\* C27 witness: the loop of the running cycle has stopped on an active bar
\* that progress = 0.3 made Determinate.
C27_Witness ==
    /\ isActive /\ determinate /\ progressPercentage = 30
    /\ lastAnimationFrame = "stamp"
    /\ frames = 0 /\ ~animationRequest
    /\ bindings = << >> /\ ~destroyed

\* C28: on an inactive bar in Indeterminate mode, a frame that follows an
\* earlier frame of the loop raises a percentage below 100 and requests the
\* next frame; at 100% it starts the fade-out and requests no frame.
C28_FinishingLoopReachesFull ==
    [][( (\E d \in Deltas \cup ShortDeltas : AnimationFrame(d))
         /\ ~isActive /\ ~determinate /\ lastAnimationFrame = "stamp" ) =>
          IF progressPercentage < 100
          THEN /\ progressPercentage' > progressPercentage
               /\ frames' = frames /\ animationRequest'
               /\ UNCHANGED << progressBarVisible, listeners >>
          ELSE /\ ~progressBarVisible'
               /\ listeners'["wrapper"] = 1
               /\ frames' = frames - 1 /\ ~animationRequest'
               /\ UNCHANGED progressPercentage]_vars

\* C28 witness: the loop of an inactive Indeterminate bar has arrived at 100%
\* and ended in the fade-out: no frame is requested and the wrapper's
\* transitionend is awaited.
C28_Witness ==
    /\ ~isActive /\ ~determinate /\ ~progressBarVisible
    /\ progressPercentage = 100
    /\ frames = 0 /\ ~animationRequest /\ lastAnimationFrame = "stamp"
    /\ removePendingHandler = "wrapper" /\ listeners["wrapper"] = 1
    /\ ~destroyed

\* C29: a number emitted by the bound stream changes the state exactly as
\* assigning it to progress does, leaving the bar in Determinate mode; any
\* other emitted value changes nothing.
C29_EmissionIsProgress ==
    [][\A v \in EmitInputs :
          (\E i \in 1..MaxBindings : Emit(i, v)) =>
            IF v.type = "number"
            THEN This' = SetProgressFn(This, v) /\ determinate'
            ELSE This' = This]_vars

\* C29 witness: start(stream) was the last call, on a bar in Indeterminate
\* mode; the stream has emitted 0.3 and the bar is Determinate at 30%.
C29_Witness ==
    /\ finalCall.op = "start" /\ finalCall.arg = "stream"
    /\ ~finalCall.determinate
    /\ ~destroyed
    /\ isActive /\ determinate /\ progressPercentage = 30
    /\ cleanupSubscription \in LiveBindings

\* C30: complete() changes neither the mode nor the configured speed, and on
\* an inactive bar it changes nothing at all.
C30_CompleteFrame ==
    [][(\E final \in BOOLEAN : Complete(final)) =>
          /\ UNCHANGED << determinate, indeterminateSpeed >>
          /\ ~isActive => This' = This]_vars

\* C30 witness: complete() was called last, on an inactive Determinate bar
\* waiting for the indicator's transitionend; the wait is still the only one.
C30_Witness ==
    /\ finalCall.op = "complete" /\ ~finalCall.active
    /\ ~destroyed
    /\ ~isActive /\ determinate /\ progressBarVisible
    /\ progressPercentage = 100
    /\ listeners = [wrapper |-> 0, indicator |-> 1]

\* C31: an active bar is visible.
C31_ActiveIsVisible == isActive => progressBarVisible

\* C32: before teardown, an active bar in Indeterminate mode has a frame
\* request of its loop pending.
C32_ActiveLoopIsLive ==
    (isActive /\ ~determinate /\ ~destroyed) => frames > 0

\* C33: before teardown, an inactive bar that is still visible has a frame
\* request pending or a transitionend listener registered.
C33_FinishingIsNeverStuck ==
    (~isActive /\ progressBarVisible /\ ~destroyed) =>
        (frames > 0 \/ \E e \in Elements : listeners[e] > 0)

\* C34: after every step at most one transitionend listener is registered
\* across the two elements, and it is the one removePendingHandler removes; a
\* firing listener is not registered any more afterwards: the wrapper's leaves
\* none, the indicator's leaves only the wrapper's, which its fade-out adds.
C34_AtMostOneListener ==
    [][/\ listeners'["wrapper"] + listeners'["indicator"] <= 1
       /\ \A e \in Elements : listeners'[e] = 1 => removePendingHandler' = e
       /\ WrapperTransitionEnd =>
              listeners' = [wrapper |-> 0, indicator |-> 0]
       /\ IndicatorTransitionEnd =>
              listeners' = [wrapper |-> 1, indicator |-> 0]]_vars

\* C34 witness: the indicator's listener has fired on a finished Determinate
\* cycle; the wrapper's listener is the only one registered.
C34_Witness ==
    /\ ~isActive /\ determinate /\ ~progressBarVisible
    /\ progressPercentage = 100
    /\ listeners = [wrapper |-> 1, indicator |-> 0]
    /\ removePendingHandler = "wrapper"

\* start() without a source was the last call
StartedWithoutSource ==
    /\ finalCall.op = "start" /\ finalCall.arg = NoSource
    /\ ~destroyed

\* C35: start() without a source leaves no live binding, and after it no
\* settlement, emission or termination of an earlier binding changes the
\* state of the bar.
C35_StartUnbinds ==
    [][/\ (\E final \in BOOLEAN : Start(NoSource, final)) =>
              (LiveBindings' = {} /\ cleanupSubscription' = 0)
       /\ (StartedWithoutSource /\
              (AnyEmit \/ AnyTerminate \/
               \E i \in 1..MaxBindings, o \in {"resolve", "reject"} : Settle(i, o))) =>
              Observable(This)' = Observable(This)]_vars

\* C35 witness: start() without a source was called last on a bar that was
\* active for a bound future; the bar is active, the future has not settled
\* yet and is no longer observed.
C35_Witness ==
    /\ StartedWithoutSource
    /\ finalCall.active
    /\ isActive
    /\ cleanupSubscription = 0
    /\ \E i \in DOMAIN bindings :
          bindings[i].kind = "promise" /\ ~bindings[i].live

\* C36: destroyAllToasts() leaves no toast open, and every toast that was
\* open has had its dismissal started (the timeout that destroys its component
\* is pending) and has no armed timer.
C36_DestroyAllDismissesAll ==
    [][DestroyAllToasts =>
          /\ openToasts' = << >>
          /\ \A t \in OpenToastIds :
                /\ toasts'[t].timeouts = toasts[t].timeouts + 1
                /\ toasts'[t].timer # "armed"]_vars

\* C37: the component of a toast is destroyed at most once, and a created
\* toast that has left the open toasts does not return to them.
C37_DestroyedAtMostOnce ==
    [][\A t \in 1..MaxToasts :
          /\ toasts'[t].destroys <= 1
          /\ (toasts[t].phase = "created" /\ t \notin OpenToastIds) =>
                t \notin OpenToastIds']_vars

\* a stands before b in seq
Precedes(seq, a, b) ==
    \E i, j \in DOMAIN seq : i < j /\ seq[i] = a /\ seq[j] = b

\* no positionOpenToasts() callback and no destroyToast timeout is pending
Repositioned == repositions = 0 /\ \A t \in 1..MaxToasts : toasts[t].timeouts = 0

\* the first open toast has top 0 and every other one lies below the one
\* before it by that one's height and the vertical margin
TopsStacked ==
    \A i \in DOMAIN openToasts :
        toasts[openToasts[i]].top =
            IF i = 1 THEN 0
            ELSE toasts[openToasts[i - 1]].top + GetHeight(openToasts[i - 1])
                     + VerticalMargin

\* C38: a newly created toast is put in front of the open toasts, no other
\* step changes the order of those that stay, and once every pending
\* repositioning has run the top of each open toast is the sum of height +
\* vertical margin over the open toasts before it, 0 for the newest.
C38_NewestFirstStacked ==
    [][/\ \A t \in 1..MaxToasts :
             (toasts[t].phase = "creating" /\ toasts'[t].phase = "created") =>
                 openToasts' = << t >> \o openToasts
       /\ \A a, b \in OpenToastIds :
             Precedes(openToasts', a, b) => Precedes(openToasts, a, b)
       /\ Repositioned' => TopsStacked']_vars

C38_Witness ==
    /\ Len(openToasts) = 2
    /\ Repositioned
    /\ toasts[openToasts[1]].top = 0
    /\ toasts[openToasts[2]].top = GetHeight(openToasts[1]) + VerticalMargin

TypeOK ==
    /\ isActive \in BOOLEAN
    /\ determinate \in BOOLEAN
    /\ progressPercentage \in (0..100) \cup {NaN}
    /\ progressBarVisible \in BOOLEAN
    /\ frames \in 0..MaxFrames
====
